---- MODULE Spec2Model ----
(***************************************************************************)
(* Model of workout_engine_testset_v5_science/score_predictions.py: the    *)
(* scorer that joins a dataset of expected prescriptions with a file of    *)
(* predictions and folds every evaluated main-lift entry into global and   *)
(* per-user aggregates.                                                    *)
(*                                                                         *)
(* JSON values are encoded with one shape per field so that values stay    *)
(* comparable: a string field holds its string or Absent (key not in the   *)
(* object) or None (JSON null); a numeric field is a tagged record.        *)
(***************************************************************************)
EXTENDS Integers, Sequences, FiniteSets

VARIABLES ds, pr, pc, pi, pred, ri, ei, pred_list, p,
          total, agree, abs_err, decision_ok, decision_total, per_user

vars == <<ds, pr, pc, pi, pred, ri, ei, pred_list, p,
          total, agree, abs_err, decision_ok, decision_total, per_user>>

counters == <<total, agree, abs_err, decision_ok, decision_total>>

----------------------------------------------------------------------------
(* Bounds of the explored inputs *)

MaxDs == 2
MaxPr == 2
MaxList == 2
MaxWeight == 2

----------------------------------------------------------------------------
(* Encoding of JSON values *)

Absent == "<absent>"
None == "<None>"

NumAbsent == [tag |-> "absent", num |-> 0]
NumNull == [tag |-> "null", num |-> 0]
Num(n) == [tag |-> "num", num |-> n]

RangeAbsent == [tag |-> "absent", lo |-> 0, hi |-> 0]
RangeNull == [tag |-> "null", lo |-> 0, hi |-> 0]
RangeEmpty == [tag |-> "empty", lo |-> 0, hi |-> 0]
RangePair(lo, hi) == [tag |-> "list", lo |-> lo, hi |-> hi]

ObjAbsent == [tag |-> "absent", has_list |-> FALSE, items |-> <<>>]
ObjNoList == [tag |-> "object", has_list |-> FALSE, items |-> <<>>]
ObjList(items) == [tag |-> "object", has_list |-> TRUE, items |-> items]

SeqUpTo(S, n) == UNION {[1..m -> S] : m \in 0..n}

Abs(x) == IF x < 0 THEN -x ELSE x

----------------------------------------------------------------------------
(* The program's constants and pure functions *)

MAIN_overhead_press == {"squat", "bench", "deadlift", "overhead-press"}

MAIN == {"squat", "bench", "deadlift", "ohp"}

\* dict.get(name): the value, or None when the key is not in the object
Get(field) == IF field = Absent THEN None ELSE field

\* r[name] raises KeyError when the key is not in the object
KeyRaises(r) == r.user_id = Absent \/ r.date = Absent \/ r.session_type = Absent

key_user_only(r) == <<r.user_id, r.session_type>>

key(r) == <<r.user_id, r.date, r.session_type>>

RECURSIVE find_last_by_lift(_, _)
find_last_by_lift(lst, lift) ==
  IF lst = <<>> THEN <<>>
  ELSE IF Get(lst[Len(lst)].lift) = lift THEN <<lst[Len(lst)]>>
  ELSE find_last_by_lift(SubSeq(lst, 1, Len(lst) - 1), lift)

RECURSIVE find_first_by_lift(_, _)
find_first_by_lift(lst, lift) ==
  IF lst = <<>> THEN <<>>
  ELSE IF Get(Head(lst).lift) = lift THEN <<Head(lst)>>
  ELSE find_first_by_lift(Tail(lst), lift)

find_or_first(lst, lift) ==
  IF find_first_by_lift(lst, lift) = <<>> /\ lst # <<>>
  THEN <<Head(lst)>>
  ELSE find_first_by_lift(lst, lift)

\* the matching entry as a one-element sequence, <<>> for Python's None
find_by_lift(lst, lift) == find_first_by_lift(lst, lift)

in_range_exclusive(x, lo, hi) == (x > lo) /\ (x < hi)

in_range(x, lo, hi) == (x >= lo) /\ (x <= hi)

\* float(entry.get("prescribed_weight_lb") or 0); the weights explored are
\* small integers, which float() represents exactly
Weight(field) == IF field.tag = "num" THEN field.num ELSE 0

RangeOrZeroBased(field, e_w) ==
  IF field.tag = "list" THEN <<field.lo, field.hi>> ELSE <<0, e_w>>

\* e.get("acceptable_range_lb") or [e_w, e_w]: a two-element list is truthy
\* whatever its numbers; absent, null and [] fall back to the point range
RangeOr(field, e_w) ==
  IF field.tag = "list" THEN <<field.lo, field.hi>> ELSE <<e_w, e_w>>

BothDecideExpectedOnly(e_d, p_d) == e_d # None

BothDecide(e_d, p_d) == e_d # None /\ p_d # None

\* r.get("expected", {}).get("session_prescription_for_today"): the list, or
\* None (has_list FALSE) when either key is missing
ExpList(r) == [has_list |-> r.expected.has_list, items |-> r.expected.items]

\* "not exp_list": None or the empty list
Falsy(l) == ~l.has_list \/ l.items = <<>>

\* rec.get("engine_output", {}).get("session_prescription_for_today", [])
PredList(rec) == rec.engine_output.items

IndexPutFirstWins(idx, k, rec) ==
  [x \in DOMAIN idx \cup {k} |-> IF x \in DOMAIN idx THEN idx[x] ELSE rec]

\* one iteration of the dict comprehension: idx[k] = rec
IndexPut(idx, k, rec) ==
  [x \in DOMAIN idx \cup {k} |-> IF x = k THEN rec ELSE idx[x]]

\* the defaultdict's factory
NewUser ==
  [total |-> 0, agree |-> 0, abs_err |-> <<>>, decision_ok |-> 0,
   decision_total |-> 0]

UserGet(pu, u) == IF u \in DOMAIN pu THEN pu[u] ELSE NewUser

UserAddNoSample(pu, u, err, ok, dt, dok) ==
  [x \in DOMAIN pu \cup {u} |->
     IF x = u
     THEN [total |-> UserGet(pu, u).total + 1,
           agree |-> UserGet(pu, u).agree + (IF ok THEN 1 ELSE 0),
           abs_err |-> UserGet(pu, u).abs_err,
           decision_ok |-> UserGet(pu, u).decision_ok + (IF dok THEN 1 ELSE 0),
           decision_total |->
             UserGet(pu, u).decision_total + (IF dt THEN 1 ELSE 0)]
     ELSE pu[x]]

\* the per_user[r["user_id"]] updates of one evaluated entry
UserAdd(pu, u, err, ok, dt, dok) ==
  [x \in DOMAIN pu \cup {u} |->
     IF x = u
     THEN [total |-> UserGet(pu, u).total + 1,
           agree |-> UserGet(pu, u).agree + (IF ok THEN 1 ELSE 0),
           abs_err |-> Append(UserGet(pu, u).abs_err, err),
           decision_ok |-> UserGet(pu, u).decision_ok + (IF dok THEN 1 ELSE 0),
           decision_total |->
             UserGet(pu, u).decision_total + (IF dt THEN 1 ELSE 0)]
     ELSE pu[x]]

----------------------------------------------------------------------------
(* The input files explored *)

Weights == 0..MaxWeight
NumFields == {NumAbsent, NumNull} \cup {Num(n) : n \in Weights}
RangeFields ==
  {RangeAbsent, RangeNull, RangeEmpty}
    \cup {RangePair(lo, hi) : lo \in Weights, hi \in Weights}
Decisions == {Absent, None, "increase", "hold"}

ExpEntry(lift, w, rg, d) ==
  [lift |-> lift, prescribed_weight_lb |-> w, acceptable_range_lb |-> rg,
   decision |-> d]
PredEntry(lift, w, d) ==
  [lift |-> lift, prescribed_weight_lb |-> w, decision |-> d]

DsRecord(k, exp) ==
  [user_id |-> k[1], date |-> k[2], session_type |-> k[3], expected |-> exp]
PrRecord(k, out) ==
  [user_id |-> k[1], date |-> k[2], session_type |-> k[3],
   engine_output |-> out]

K1 == <<"u1", "d1", "A">>
K2 == <<"u2", "d1", "A">>
K3 == <<"u1", "d2", "A">>
GoodKeys == {K1, K2, K3}
BadKeys ==
  {<<Absent, "d1", "A">>, <<"u1", Absent, "A">>, <<"u1", "d1", Absent>>}

E0 == ExpEntry("squat", Num(1), RangeAbsent, "increase")
P1 == PredEntry("squat", Num(1), "increase")
P2 == PredEntry("squat", Num(2), "hold")

\* one record against one prediction: every weight, range and decision
EvalDs ==
  {<<DsRecord(K1, ObjList(<<ExpEntry("squat", w, rg, dc)>>))>> :
     w \in NumFields, rg \in RangeFields, dc \in Decisions}
EvalPr ==
  {<<PrRecord(K1, ObjList(<<PredEntry("squat", w, dc)>>))>> :
     w \in NumFields, dc \in Decisions}

\* one record against one prediction: every list of lifts on both sides
ExpLifts == {"squat", "ohp", "overhead-press", "curl", Absent}
PredLifts == {"squat", "ohp", "overhead-press", Absent}
LiftDs ==
  {<<DsRecord(K1, ObjList(l))>> :
     l \in SeqUpTo({ExpEntry(x, Num(1), RangeAbsent, "increase") :
                      x \in ExpLifts}, MaxList)}
LiftPr ==
  {<<PrRecord(K1, ObjList(l))>> :
     l \in SeqUpTo({PredEntry(x, Num(1), "increase") : x \in PredLifts}
                     \cup {PredEntry(x, Num(2), "hold") : x \in PredLifts},
                   MaxList)}

\* every predictions file, against one dataset record
IndexDs == {<<DsRecord(k, ObjList(<<E0>>))>> : k \in {K1, K2}}
IndexPr ==
  SeqUpTo({PrRecord(k, out) :
             k \in GoodKeys \cup BadKeys,
             out \in {ObjAbsent, ObjNoList, ObjList(<<P1>>), ObjList(<<P2>>)}},
          MaxPr)

\* every dataset file, against predictions for no, one or two users
JoinDs ==
  SeqUpTo({DsRecord(k, exp) :
             k \in GoodKeys \cup BadKeys,
             exp \in {ObjAbsent, ObjNoList, ObjList(<<>>), ObjList(<<E0>>)}},
          MaxDs)
JoinPr ==
  {<<>>, <<PrRecord(K1, ObjList(<<P1>>))>>,
   <<PrRecord(K1, ObjList(<<P1>>)), PrRecord(K2, ObjList(<<P2>>))>>}

InputFiles ==
  \/ ds \in EvalDs /\ pr \in EvalPr
  \/ ds \in LiftDs /\ pr \in LiftPr
  \/ ds \in IndexDs /\ pr \in IndexPr
  \/ ds \in JoinDs /\ pr \in JoinPr

----------------------------------------------------------------------------
(* The run *)

Init ==
  /\ InputFiles
  /\ pc = "index"
  /\ pi = 1
  /\ pred = <<>>
  /\ ri = 1
  /\ ei = 1
  /\ pred_list = <<>>
  /\ p = <<>>
  /\ total = 0
  /\ agree = 0
  /\ abs_err = <<>>
  /\ decision_ok = 0
  /\ decision_total = 0
  /\ per_user = <<>>

\* pred = {key(r): r for r in pr}, one prediction record per step
IndexPrediction ==
  /\ pc = "index"
  /\ pi <= Len(pr)
  /\ IF KeyRaises(pr[pi])
     THEN pc' = "error" /\ UNCHANGED <<pi, pred>>
     ELSE /\ pred' = IndexPut(pred, key(pr[pi]), pr[pi])
          /\ pi' = pi + 1
          /\ pc' = pc
  /\ UNCHANGED <<ds, pr, ri, ei, pred_list, p, counters, per_user>>

IndexDone ==
  /\ pc = "index"
  /\ pi > Len(pr)
  /\ pc' = "records"
  /\ UNCHANGED <<ds, pr, pi, pred, ri, ei, pred_list, p, counters, per_user>>

\* the head of "for r in ds": the two skips and the lookup of the prediction
NextRecord ==
  /\ pc = "records"
  /\ ri <= Len(ds)
  /\ LET r == ds[ri] IN
       IF Falsy(ExpList(r))
       THEN ri' = ri + 1 /\ UNCHANGED <<pc, ei, pred_list>>
       ELSE IF KeyRaises(r)
       THEN pc' = "error" /\ UNCHANGED <<ri, ei, pred_list>>
       ELSE IF key(r) \notin DOMAIN pred
       THEN ri' = ri + 1 /\ UNCHANGED <<pc, ei, pred_list>>
       ELSE /\ pred_list' = PredList(pred[key(r)])
            /\ ei' = 1
            /\ pc' = "entries"
            /\ ri' = ri
  /\ UNCHANGED <<ds, pr, pi, pred, p, counters, per_user>>

\* one iteration of "for e in exp_list"
EvalEntry ==
  /\ pc = "entries"
  /\ ei <= Len(ExpList(ds[ri]).items)
  /\ LET r == ds[ri]
         e == ExpList(r).items[ei]
         lift == Get(e.lift)
     IN
       IF lift \notin MAIN
       THEN UNCHANGED <<p, counters, per_user>>
       ELSE
         LET found == find_by_lift(pred_list, lift) IN
           /\ p' = found
           /\ IF found = <<>>
              THEN UNCHANGED <<counters, per_user>>
              ELSE
                LET e_w == Weight(e.prescribed_weight_lb)
                    p_w == Weight(found[1].prescribed_weight_lb)
                    rg == RangeOr(e.acceptable_range_lb, e_w)
                    err == Abs(e_w - p_w)
                    ok == in_range(p_w, rg[1], rg[2])
                    e_d == Get(e.decision)
                    p_d == Get(found[1].decision)
                    dt == BothDecide(e_d, p_d)
                    dok == dt /\ e_d = p_d
                IN
                  /\ total' = total + 1
                  /\ abs_err' = Append(abs_err, err)
                  /\ agree' = agree + (IF ok THEN 1 ELSE 0)
                  /\ decision_total' = decision_total + (IF dt THEN 1 ELSE 0)
                  /\ decision_ok' = decision_ok + (IF dok THEN 1 ELSE 0)
                  /\ per_user' = UserAdd(per_user, r.user_id, err, ok, dt, dok)
  /\ ei' = ei + 1
  /\ UNCHANGED <<ds, pr, pc, pi, pred, ri, pred_list>>

EndRecord ==
  /\ pc = "entries"
  /\ ei > Len(ExpList(ds[ri]).items)
  /\ ri' = ri + 1
  /\ pc' = "records"
  /\ UNCHANGED <<ds, pr, pi, pred, ei, pred_list, p, counters, per_user>>

\* the loop is over: the report is printed from the aggregates as they stand
Report ==
  /\ pc = "records"
  /\ ri > Len(ds)
  /\ pc' = "done"
  /\ UNCHANGED <<ds, pr, pi, pred, ri, ei, pred_list, p, counters, per_user>>

Next ==
  \/ IndexPrediction
  \/ IndexDone
  \/ NextRecord
  \/ EvalEntry
  \/ EndRecord
  \/ Report

Spec == Init /\ [][Next]_vars

----------------------------------------------------------------------------
(* Vocabulary of the properties *)

\* the run is about to score the entry CurEntry of the record CurRec
Evaluating == pc = "entries" /\ ei <= Len(ds[ri].expected.items)
CurRec == ds[ri]
CurEntry == ds[ri].expected.items[ei]
CurUser == ds[ri].user_id

\* the run is about to take the dataset record ds[ri]
Taking == pc = "records" /\ ri <= Len(ds)

NoExpected(r) ==
  r.expected.tag = "absent" \/ ~r.expected.has_list \/ r.expected.items = <<>>

SameIdentity(a, b) ==
  /\ a.user_id # Absent /\ a.date # Absent /\ a.session_type # Absent
  /\ a.user_id = b.user_id /\ a.date = b.date
  /\ a.session_type = b.session_type

Matches(r) == {i \in 1..Len(pr) : SameIdentity(r, pr[i])}

Max(S) == CHOOSE x \in S : \A y \in S : y <= x
Min(S) == CHOOSE x \in S : \A y \in S : x <= y

\* the positions of a list whose entry names the lift
Naming(lst, lift) == {j \in 1..Len(lst) : lst[j].lift = lift}

Last(s) == s[Len(s)]

RECURSIVE Sum(_)
Sum(f) ==
  IF DOMAIN f = {} THEN 0
  ELSE LET x == CHOOSE x \in DOMAIN f : TRUE
       IN f[x] + Sum([y \in DOMAIN f \ {x} |-> f[y]])

Count(s, v) == Cardinality({i \in 1..Len(s) : s[i] = v})

Samples == {abs_err[i] : i \in 1..Len(abs_err)}
           \cup UNION {{per_user[u].abs_err[i] :
                          i \in 1..Len(per_user[u].abs_err)} :
                       u \in DOMAIN per_user}

Evaluated == total' = total + 1

----------------------------------------------------------------------------
(* Properties *)

\* C1: taking a dataset record that has no prediction with its identity, or
\* whose expected prescription list is absent or empty, changes no global
\* counter, no error sample and no per-user accumulator, creates no per-user
\* entry, and ends the processing of that record.
C1_JoinCorrectness ==
  [][(Taking /\ (NoExpected(ds[ri]) \/ Matches(ds[ri]) = {}))
       => (counters' = counters /\ per_user' = per_user /\ pc' # "entries")]_vars

\* C1: a run that scored its first record and skipped its second, which has
\* a prescription but no prediction with its identity.
C1_Witness ==
  /\ pc = "done" /\ Len(ds) = 2 /\ pr # <<>>
  /\ ~NoExpected(ds[2]) /\ Matches(ds[2]) = {}
  /\ ds[2].user_id = ds[1].user_id /\ ds[2].date # Absent
  /\ total = 1

\* C2: for an evaluated entry with acceptable_range_lb = [lo, hi], the global
\* and the per-user agreement counters go up by one exactly when
\* lo <= predicted weight <= hi, and stay otherwise.
C2_RangeInclusive ==
  [][(Evaluating /\ Evaluated /\ CurEntry.acceptable_range_lb.tag = "list")
       => LET lo == CurEntry.acceptable_range_lb.lo
              hi == CurEntry.acceptable_range_lb.hi
              w == Weight(p'[1].prescribed_weight_lb)
              d == IF lo <= w /\ w <= hi THEN 1 ELSE 0
          IN /\ agree' = agree + d
             /\ UserGet(per_user', CurUser).agree
                  = UserGet(per_user, CurUser).agree + d]_vars

\* C2: a predicted weight equal to the upper bound of a proper range agreed.
C2_Witness ==
  /\ pc = "done" /\ Len(ds) = 1 /\ p # <<>> /\ total = 1
  /\ ds[1].expected.items[1].acceptable_range_lb.tag = "list"
  /\ ds[1].expected.items[1].acceptable_range_lb.lo
       < ds[1].expected.items[1].acceptable_range_lb.hi
  /\ p[1].prescribed_weight_lb
       = Num(ds[1].expected.items[1].acceptable_range_lb.hi)
  /\ agree = 1 /\ per_user["u1"].agree = 1

\* C3: for an evaluated entry without acceptable_range_lb, the agreement
\* counters go up by one exactly when the predicted weight equals the
\* expected weight, a missing or null weight counting as 0.
C3_PointRange ==
  [][(Evaluating /\ Evaluated /\ CurEntry.acceptable_range_lb.tag = "absent")
       => LET num(f) == IF f.tag = "num" THEN f.num ELSE 0
              d == IF num(p'[1].prescribed_weight_lb)
                        = num(CurEntry.prescribed_weight_lb)
                   THEN 1 ELSE 0
          IN /\ agree' = agree + d
             /\ UserGet(per_user', CurUser).agree
                  = UserGet(per_user, CurUser).agree + d]_vars

\* C3: a null expected weight agreed with a predicted weight of 0, and only
\* because null counts as 0.
C3_Witness ==
  /\ pc = "done" /\ Len(ds) = 1 /\ p # <<>> /\ total = 1
  /\ ds[1].expected.items[1].acceptable_range_lb.tag = "absent"
  /\ ds[1].expected.items[1].prescribed_weight_lb = NumNull
  /\ p[1].prescribed_weight_lb = Num(0)
  /\ agree = 1

\* C4: for an evaluated entry, decision_total (global and per-user) goes up
\* by one exactly when both entries carry a non-null decision, decision_ok
\* exactly when the two are moreover equal; and an entry of a main lift with
\* a predicted entry is evaluated and sampled whatever its decisions are.
C4_DecisionAsymmetry ==
  [][Evaluating
       => LET e_d == CurEntry.decision
              both == e_d \notin {Absent, None}
                        /\ p'[1].decision \notin {Absent, None}
              dt == IF both THEN 1 ELSE 0
              dok == IF both /\ e_d = p'[1].decision THEN 1 ELSE 0
          IN /\ Evaluated
                  => /\ decision_total' = decision_total + dt
                     /\ decision_ok' = decision_ok + dok
                     /\ UserGet(per_user', CurUser).decision_total
                          = UserGet(per_user, CurUser).decision_total + dt
                     /\ UserGet(per_user', CurUser).decision_ok
                          = UserGet(per_user, CurUser).decision_ok + dok
             /\ (CurEntry.lift \in MAIN
                   /\ Naming(pred_list, CurEntry.lift) # {})
                  => Evaluated /\ Len(abs_err') = Len(abs_err) + 1]_vars

\* C4: an expected entry with a decision met a predicted entry without one:
\* it was evaluated and agreed on weight, and no decision was compared.
C4_Witness ==
  /\ pc = "done" /\ Len(ds) = 1 /\ p # <<>>
  /\ ds[1].expected.items[1].decision = "increase"
  /\ p[1].decision = Absent
  /\ total = 1 /\ agree = 1 /\ decision_total = 0 /\ decision_ok = 0

\* C5 as stated: an expected entry is evaluated exactly when its lift is one
\* of squat, bench, deadlift, overhead-press and the prediction has an entry
\* for that lift; any other entry changes no counter.
C5_MainLiftFilter_AsStated ==
  [][Evaluating
       => IF CurEntry.lift \in {"squat", "bench", "deadlift", "overhead-press"}
               /\ Naming(pred_list, CurEntry.lift) # {}
          THEN /\ Evaluated
               /\ UserGet(per_user', CurUser).total
                    = UserGet(per_user, CurUser).total + 1
          ELSE counters' = counters /\ per_user' = per_user]_vars

\* C5 amended: an expected entry is evaluated exactly when its lift is one of
\* the strings "squat", "bench", "deadlift", "ohp" and the prediction has an
\* entry for that lift; any other entry, one named "overhead-press" included,
\* changes no counter.
C5_MainLiftFilter ==
  [][Evaluating
       => IF CurEntry.lift \in {"squat", "bench", "deadlift", "ohp"}
               /\ Naming(pred_list, CurEntry.lift) # {}
          THEN /\ Evaluated
               /\ UserGet(per_user', CurUser).total
                    = UserGet(per_user, CurUser).total + 1
          ELSE counters' = counters /\ per_user' = per_user]_vars

\* C5: of an "ohp" and an "overhead-press" entry, both with a predicted
\* entry, only the "ohp" one was evaluated.
C5_Witness ==
  /\ pc = "done" /\ Len(ds) = 1 /\ Len(pr) = 1
  /\ Len(ds[1].expected.items) = 2
  /\ ds[1].expected.items[1].lift = "ohp"
  /\ ds[1].expected.items[2].lift = "overhead-press"
  /\ Naming(pr[1].engine_output.items, "ohp") # {}
  /\ Naming(pr[1].engine_output.items, "overhead-press") # {}
  /\ total = 1

\* C6: whatever fields the records lack, the run never ends in an error.
C6_NeverFaults == pc # "error"

\* C7: at every point of the run, each per-user counter summed over the
\* users equals the global counter, and every error value occurs as often in
\* the per-user samples together as in the global samples.
C7_PerUserSums ==
  /\ Sum([u \in DOMAIN per_user |-> per_user[u].total]) = total
  /\ Sum([u \in DOMAIN per_user |-> per_user[u].agree]) = agree
  /\ Sum([u \in DOMAIN per_user |-> per_user[u].decision_ok]) = decision_ok
  /\ Sum([u \in DOMAIN per_user |-> per_user[u].decision_total])
       = decision_total
  /\ \A v \in Samples :
       Sum([u \in DOMAIN per_user |-> Count(per_user[u].abs_err, v)])
         = Count(abs_err, v)

\* C7: two users were scored, with different errors.
C7_Witness ==
  /\ pc = "done" /\ DOMAIN per_user = {"u1", "u2"}
  /\ total = 2 /\ abs_err = <<0, 1>>

\* C8: an expected entry of a main lift for which the predicted list has no
\* entry of the same lift changes no counter, no error sample and no
\* per-user accumulator.
C8_MissingPredictedEntry ==
  [][(Evaluating
        /\ CurEntry.lift
             \in {"squat", "bench", "deadlift", "ohp", "overhead-press"}
        /\ Naming(pred_list, CurEntry.lift) = {})
       => (counters' = counters /\ per_user' = per_user)]_vars

\* C8: a squat was expected, the prediction held entries for other lifts
\* only, and nothing was counted.
C8_Witness ==
  /\ pc = "done" /\ Len(ds) = 1 /\ Len(pr) = 1
  /\ Len(ds[1].expected.items) = 1
  /\ ds[1].expected.items[1].lift = "squat"
  /\ pr[1].engine_output.items # <<>>
  /\ Naming(pr[1].engine_output.items, "squat") = {}
  /\ total = 0 /\ abs_err = <<>> /\ per_user = <<>>

\* C9: a dataset record is scored against the prescription list of the last
\* prediction record, in file order, that has its identity: an entry is
\* evaluated only if that list names its lift, and its error sample is taken
\* from that list.
C9_LastWriteWins ==
  [][Evaluating
       => LET lst == IF Matches(CurRec) = {} THEN <<>>
                     ELSE pr[Max(Matches(CurRec))].engine_output.items
              at == Naming(lst, CurEntry.lift)
          IN /\ pred_list = lst
             /\ Evaluated
                  => /\ at # {}
                     /\ Last(abs_err')
                          = Abs(Weight(CurEntry.prescribed_weight_lb)
                                  - Weight(lst[Min(at)].prescribed_weight_lb))]_vars

\* C9: two predictions shared the record's identity and differed, and the
\* sample came from the second.
C9_Witness ==
  /\ pc = "done" /\ Len(pr) = 2 /\ Len(ds) = 1
  /\ Matches(ds[1]) = {1, 2}
  /\ pr[1].engine_output = ObjList(<<P1>>)
  /\ pr[2].engine_output = ObjList(<<P2>>)
  /\ abs_err = <<1>> /\ decision_ok = 0

\* C10: the lookup of a main lift in the predicted list yields the entry at
\* the smallest position naming the lift, or nothing when no entry names it;
\* the error sample and the decision match come from that entry.
C10_FirstMatch ==
  [][(Evaluating /\ CurEntry.lift \in MAIN)
       => LET at == Naming(pred_list, CurEntry.lift) IN
            IF at = {} THEN p' = <<>>
            ELSE /\ p' = <<pred_list[Min(at)]>>
                 /\ Len(abs_err') = Len(abs_err) + 1
                 /\ Last(abs_err')
                      = Abs(Weight(CurEntry.prescribed_weight_lb)
                              - Weight(pred_list[Min(at)].prescribed_weight_lb))
                 /\ decision_ok'
                      = decision_ok
                          + (IF CurEntry.decision \notin {Absent, None}
                                  /\ CurEntry.decision
                                       = pred_list[Min(at)].decision
                             THEN 1 ELSE 0)]_vars

\* C10: the predicted list named the squat twice, and the first was used.
C10_Witness ==
  /\ pc = "done" /\ Len(ds) = 1 /\ Len(pr) = 1
  /\ ds[1].expected.items = <<ExpEntry("squat", Num(1), RangeAbsent, "increase")>>
  /\ pr[1].engine_output.items
       = <<PredEntry("squat", Num(2), "hold"),
           PredEntry("squat", Num(1), "increase")>>
  /\ p = <<PredEntry("squat", Num(2), "hold")>>
  /\ abs_err = <<1>> /\ decision_ok = 0

====
